---- MODULE Spec2Model ----
(***************************************************************************)
(* Two-party WebRTC negotiation of the video-call hook (useVideoCall,      *)
(* initializeSession) over the signals table, with the WebRTCService       *)
(* wrapper around one RTCPeerConnection per membership.                    *)
(*                                                                         *)
(* The RTCPeerConnection is the browser's: its signaling state machine is  *)
(* modelled as the W3C WebRTC recommendation defines it (JSEP transitions, *)
(* pending/current descriptions, rollback, addIceCandidate rejecting when  *)
(* no remote description is set).  Session descriptions are abstracted to  *)
(* their identity: who created them and which offer they belong to.        *)
(***************************************************************************)
EXTENDS Naturals, Integers, Sequences, FiniteSets, TLC

\* ------------------------------------------------------------------ bounds
MaxCand == 1       \* ICE candidates gathered and published in the room
MaxReplayCand == 2 \* the same, in the sessions that rejoin and replay
MaxDup == 1        \* redeliveries of an already delivered message, per room
MaxRestart == 1    \* automatic ICE restarts in the room
MaxLeave == 2      \* leaveSession / cleanup calls in the room
MaxFail == 2       \* connectivity failures in the room, suspended steps shown
MaxFault == 1      \* rejected channel calls and malformed rows in the room

\* ------------------------------------------------------------------- state
Peers == {"A", "B"}

Other(p) == IF p = "A" THEN "B" ELSE "A"

VARIABLES
    log,        \* the room's rows of the signals table, in creation order
    pos,        \* where each peer's initializeSession stands
    snapLen,    \* length of the log prefix returned by getSignals
    inbox,      \* log rows the realtime channel still has to deliver
    delivered,  \* log rows the realtime channel has delivered
    dups,       \* redeliveries the channel has made so far
    pc,         \* each peer's RTCPeerConnection
    applied,    \* remote candidates the connection has accepted, in order
    cands,      \* candidates the connections have gathered
    restarts,   \* ICE restarts the WebRTCServices have started
    offerSeq,   \* offers each peer's connections have created so far
    leaves,     \* leaveSession calls so far
    role,       \* bootstrap branch taken by each peer
    error,      \* the hook's error state (setError)
    notes,      \* what the live handlers have logged so far
    roomId,     \* the hook's roomId state is set (a membership is running)
    media,      \* the capture stream getUserMedia returned for the session
    tasks,      \* offer rows whose live handler is suspended in createAnswer
    restarting, \* the offer a suspended restartIce has created (0: none)
    connectionState, \* the hook's connectionState (setConnectionState)
    room,       \* the room's row: status and the writes of ended_at
    acq,        \* what the last getUserMedia of each peer met and returned
    lost,       \* channel calls that were rejected: <<call, peer>>
    faults,     \* rejected channel calls and malformed rows so far
    gen,        \* WebRTCServices each hook instance has created so far
    isCameraOn, \* the hook's isCameraOn state
    isMicOn,    \* the hook's isMicOn state
    trackEnabled \* enabled flags of the tracks of each peer's last stream

vars == <<log, pos, snapLen, inbox, delivered, dups, pc, applied, cands,
          restarts, offerSeq, leaves, role, error,
          notes, roomId, media, tasks, restarting, connectionState, room,
          acq, lost, faults, gen, isCameraOn, isMicOn, trackEnabled>>

\* what only the session lifecycle and the suspended steps touch
asyncVars == <<roomId, media, tasks, restarting>>

\* the hook instance: its connections so far, its camera and microphone
\* flags and the flags of its stream's tracks
instVars == <<gen, isCameraOn, isMicOn, trackEnabled>>

\* the room's row, the media acquisition and the channel's failures, and
\* the hook instance
callVars == <<room, acq, lost, faults, instVars>>

\* those and the connectivity state the hook shows
hookVars == <<connectionState, room, acq, lost, faults, instVars>>

\* --------------------------------------------------------- descriptions
NoDesc == [type |-> "none", from |-> "none", id |-> 0, gen |-> 0]

\* an offer created by p, its n-th (the number tells the connection)
Offer(p, n) == [type |-> "offer", from |-> p, id |-> n, gen |-> 0]

\* the answer p's connection creates for the offer o of the other peer: it
\* carries the credentials of the connection that created it (gen)
Answer(p, o) == [type |-> "answer", from |-> p, id |-> o.id, gen |-> gen[p]]

Candidate(p, n) == [type |-> "candidate", from |-> p, id |-> n, gen |-> 0]

\* a payload that is no session description and no candidate
Malformed == [type |-> "malformed", from |-> "none", id |-> 0, gen |-> 0]

Signal(t, p, d) == [signal_type |-> t, sender_id |-> p, signal_data |-> d]

\* ------------------------------------------------ RTCPeerConnection (W3C)
NewPC ==
    [signalingState |-> "stable",
     pendingLocalDescription |-> NoDesc,
     currentLocalDescription |-> NoDesc,
     pendingRemoteDescription |-> NoDesc,
     currentRemoteDescription |-> NoDesc,
     connectionState |-> "new",
     videoSender |-> "none"]

\* pc.close()
ClosedPC == [NewPC EXCEPT !.signalingState = "closed",
                          !.connectionState = "closed"]

Ok(c) == [ok |-> TRUE, pc |-> c]
Fail(c) == [ok |-> FALSE, pc |-> c]

LocalDescription(c) ==
    IF c.pendingLocalDescription # NoDesc THEN c.pendingLocalDescription
    ELSE c.currentLocalDescription

RemoteDescription(c) ==
    IF c.pendingRemoteDescription # NoDesc THEN c.pendingRemoteDescription
    ELSE c.currentRemoteDescription

\* pc.createOffer(): rejected outside stable / have-local-offer
CanCreateOffer(c) == c.signalingState \in {"stable", "have-local-offer"}

\* pc.setLocalDescription({type: 'rollback'})
Rollback(c) ==
    IF c.signalingState \in {"have-local-offer", "have-remote-offer"}
    THEN Ok([c EXCEPT !.signalingState = "stable",
                      !.pendingLocalDescription = NoDesc,
                      !.pendingRemoteDescription = NoDesc])
    ELSE Fail(c)

\* pc.setLocalDescription(d)
SetLocalDescription(c, d) ==
    IF d.type = "offer" /\ c.signalingState \in {"stable", "have-local-offer"}
    THEN Ok([c EXCEPT !.signalingState = "have-local-offer",
                      !.pendingLocalDescription = d])
    ELSE IF d.type = "answer" /\ c.signalingState = "have-remote-offer"
    THEN Ok([c EXCEPT !.signalingState = "stable",
                      !.currentLocalDescription = d,
                      !.currentRemoteDescription = c.pendingRemoteDescription,
                      !.pendingLocalDescription = NoDesc,
                      !.pendingRemoteDescription = NoDesc])
    ELSE Fail(c)

\* pc.setRemoteDescription(d); a remote offer in have-local-offer rolls the
\* local offer back implicitly
PcSetRemoteDescription(c, d) ==
    IF d.type = "offer"
       /\ c.signalingState \in {"stable", "have-remote-offer", "have-local-offer"}
    THEN Ok([c EXCEPT !.signalingState = "have-remote-offer",
                      !.pendingLocalDescription = NoDesc,
                      !.pendingRemoteDescription = d])
    ELSE IF d.type = "answer" /\ c.signalingState = "have-local-offer"
    THEN Ok([c EXCEPT !.signalingState = "stable",
                      !.currentLocalDescription = c.pendingLocalDescription,
                      !.currentRemoteDescription = d,
                      !.pendingLocalDescription = NoDesc,
                      !.pendingRemoteDescription = NoDesc])
    ELSE Fail(c)

\* ------------------------------------------------------------ WebRTCService
\* a createOffer that returns the offer without committing it locally
createOfferMut(c, p, n) ==
    IF CanCreateOffer(c) THEN Ok(c) ELSE Fail(c)

\* createOffer(): pc.createOffer, then setLocalDescription of the result
createOffer(c, p, n) ==
    IF CanCreateOffer(c) THEN SetLocalDescription(c, Offer(p, n)) ELSE Fail(c)

\* a createAnswer that returns the answer without committing it locally
createAnswerMut(c, p, offer) == PcSetRemoteDescription(c, offer)

\* createAnswer(offer): setRemoteDescription, pc.createAnswer,
\* setLocalDescription; a failing step throws and leaves what was done
createAnswer(c, p, offer) ==
    LET r == PcSetRemoteDescription(c, offer) IN
    IF r.ok THEN SetLocalDescription(r.pc, Answer(p, offer)) ELSE Fail(c)

\* a setRemoteDescription that closes the connection when the call fails
setRemoteDescriptionMut(c, d) ==
    LET r == PcSetRemoteDescription(c, d) IN
    IF r.ok THEN r ELSE Fail(ClosedPC)

\* setRemoteDescription(d): handed to the connection as it is
setRemoteDescription(c, d) == PcSetRemoteDescription(c, d)

\* addIceCandidate: rejected while the connection has no remote description
CanAddIceCandidate(c) == RemoteDescription(c) # NoDesc

addIceCandidate(c, seq, cand) ==
    IF ~CanAddIceCandidate(c) \/ cand.type # "candidate" THEN seq
    ELSE IF \E k \in 1..Len(seq) : seq[k] = cand THEN seq
    ELSE Append(seq, cand)

\* restartIce(): createOffer({iceRestart}) and setLocalDescription, errors
\* caught and logged; the offer is not handed to anyone
restartIce(c, p, n) ==
    IF CanCreateOffer(c) THEN SetLocalDescription(c, Offer(p, n)).pc ELSE c

\* an initialize without the guard on the connection
initializeMut(c, m) ==
    Ok([c EXCEPT !.videoSender = IF m = "live" THEN "camera" ELSE "none"])

\* WebRTCService.initialize on a service without a connection throws;
\* otherwise the stream is bound and each of its tracks gets a sender: a
\* video sender when the stream has a video track
initialize(c, m) ==
    IF c.signalingState = "closed" THEN Fail(c)
    ELSE Ok([c EXCEPT !.videoSender = IF m = "live" THEN "camera" ELSE "none"])

\* ------------------------------------------------------------ MediaService
\* what navigator.mediaDevices.getUserMedia can answer
MediaOutcomes ==
    {"ok", "NotAllowedError", "NotFoundError", "NotReadableError", "AbortError"}

NoError == [msg |-> "none", name |-> "none"]

\* getUserMedia(quality): the first call asks for video and audio; when it
\* is rejected with NotReadableError or AbortError a second call asks for
\* audio only.  e1 and e2 are the browser's answers to the two calls; the
\* stream is "live" (video and audio), "audio" or "none".
getUserMedia(e1, e2) ==
    IF e1 = "ok"
    THEN [stream |-> "live", error |-> NoError, calls |-> 1]
    ELSE IF e1 \in {"NotReadableError", "AbortError"}
    THEN IF e2 = "ok"
         THEN [stream |-> "audio", error |-> NoError, calls |-> 2]
         ELSE [stream |-> "none",
               error |-> [msg |-> "Microphone unavailable", name |-> "none"],
               calls |-> 2]
    ELSE [stream |-> "none",
          error |-> [msg |-> "Failed to access media", name |-> e1],
          calls |-> 1]

\* the record kept of an acquisition: the browser's answers and the result
Acquired(e1, e2) ==
    LET g == getUserMedia(e1, e2) IN
    [first |-> e1, second |-> IF g.calls = 2 THEN e2 ELSE "none",
     stream |-> g.stream, error |-> g.error, calls |-> g.calls]

NoAcq == [first |-> "none", second |-> "none", stream |-> "none",
          error |-> NoError, calls |-> 0]

\* ----------------------------------------------------------- signal channel
\* the channel of p is armed and has not been removed
Subscribed(p) ==
    pos[p] \notin {"idle", "acquiring"} /\ pc[p].signalingState # "closed"

\* storeSignal by p: the row is appended and broadcast to the subscribers.
\* The copy that comes back to p itself is not queued: the handler returns
\* on it at once, whenever it arrives (DeliverOwn).
StoreSignal(p, m) ==
    /\ log' = Append(log, m)
    /\ inbox' = [q \in Peers |->
                   IF q # p /\ Subscribed(q)
                   THEN inbox[q] \cup {Len(log) + 1}
                   ELSE inbox[q]]

\* getSignals: the rows stored so far, oldest first
Snapshot(p) == SubSeq(log, 1, snapLen[p])

OfferRows(s) == {i \in 1..Len(s) : s[i].signal_type = "offer"}

Min(S) == CHOOSE x \in S : \A y \in S : x <= y

\* signals.find(s => s.signal_type === 'offer')
ExistingOffer(s) == s[Min(OfferRows(s))]

RECURSIVE ApplyRemoteIce(_, _, _, _)
\* the answerer's loop over the replayed candidates of the other sender
ApplyRemoteIce(c, seq, s, p) ==
    IF s = <<>> THEN seq
    ELSE LET m == Head(s) IN
         ApplyRemoteIce(c,
                        IF m.signal_type = "ice" /\ m.sender_id # p
                        THEN addIceCandidate(c, seq, m.signal_data)
                        ELSE seq,
                        Tail(s), p)

\* ------------------------------------------------------------------ Init
Init ==
    /\ log = <<>>
    /\ pos = [p \in Peers |-> "idle"]
    /\ snapLen = [p \in Peers |-> 0]
    /\ inbox = [p \in Peers |-> {}]
    /\ delivered = [p \in Peers |-> {}]
    /\ dups = 0
    /\ pc = [p \in Peers |-> NewPC]
    /\ applied = [p \in Peers |-> <<>>]
    /\ cands = 0
    /\ restarts = 0
    /\ offerSeq = [p \in Peers |-> 0]
    /\ leaves = 0
    /\ role = [p \in Peers |-> "none"]
    /\ error = [p \in Peers |-> FALSE]
    /\ notes = {}
    /\ roomId = [p \in Peers |-> FALSE]
    /\ media = [p \in Peers |-> "none"]
    /\ tasks = [p \in Peers |-> {}]
    /\ restarting = [p \in Peers |-> 0]
    /\ connectionState = [p \in Peers |-> "new"]
    /\ room = [status |-> "active", ends |-> 0]
    /\ acq = [p \in Peers |-> NoAcq]
    /\ lost = {}
    /\ faults = 0
    /\ gen = [p \in Peers |-> 0]
    /\ isCameraOn = [p \in Peers |-> TRUE]
    /\ isMicOn = [p \in Peers |-> TRUE]
    /\ trackEnabled = [p \in Peers |-> [video |-> TRUE, audio |-> TRUE]]

\* console.warn / console.log of the live handler
Note(t, p) == notes' = notes \cup {<<t, p>>}

\* --------------------------------------------------------------- actions
\* joinSession: the error state is reset; initializeSession binds a new
\* WebRTCService and arms the subscription
Join(p) ==
    /\ pos[p] = "idle"
    /\ pos' = [pos EXCEPT ![p] = "subscribed"]
    /\ pc' = [pc EXCEPT ![p] = initialize(NewPC, "live").pc]
    /\ applied' = [applied EXCEPT ![p] = <<>>]
    /\ error' = [error EXCEPT ![p] = FALSE]
    /\ roomId' = [roomId EXCEPT ![p] = TRUE]
    /\ media' = [media EXCEPT ![p] = "live"]
    /\ acq' = [acq EXCEPT ![p] = Acquired("ok", "ok")]
    /\ UNCHANGED <<log, snapLen, inbox, delivered, dups, cands, restarts,
                   offerSeq, leaves, role, notes, tasks, restarting>>
    /\ UNCHANGED <<connectionState, room, lost, faults>>
    /\ gen' = [gen EXCEPT ![p] = @ + 1]
    /\ trackEnabled' = [trackEnabled EXCEPT
                          ![p] = [video |-> TRUE, audio |-> TRUE]]
    /\ UNCHANGED <<isCameraOn, isMicOn>>

\* the getSignals query is answered with the rows stored at that moment
Replay(p) ==
    /\ pos[p] = "subscribed"
    /\ pos' = [pos EXCEPT ![p] = "replayed"]
    /\ snapLen' = [snapLen EXCEPT ![p] = Len(log)]
    /\ UNCHANGED <<log, inbox, delivered, dups, pc, applied, cands, restarts,
                   offerSeq, leaves, role, error, notes>>
    /\ UNCHANGED asyncVars
    /\ UNCHANGED hookVars

\* no offer in the replay: this peer is the caller
BootstrapCaller(p) ==
    LET r == createOffer(pc[p], p, offerSeq[p] + 1) IN
    /\ pos[p] = "replayed"
    /\ OfferRows(Snapshot(p)) = {}
    /\ pos' = [pos EXCEPT ![p] = "live"]
    /\ role' = [role EXCEPT ![p] = "caller"]
    /\ pc' = [pc EXCEPT ![p] = r.pc]
    /\ IF r.ok
       THEN /\ offerSeq' = [offerSeq EXCEPT ![p] = @ + 1]
            /\ StoreSignal(p, Signal("offer", p, Offer(p, offerSeq[p] + 1)))
            /\ UNCHANGED error
       ELSE /\ error' = [error EXCEPT ![p] = TRUE]
            /\ UNCHANGED <<offerSeq, log, inbox>>
    /\ UNCHANGED <<snapLen, delivered, dups, applied, cands, restarts, leaves,
                   notes>>
    /\ UNCHANGED asyncVars
    /\ UNCHANGED hookVars

\* a callee branch that applies the replayed candidates before it answers
BootstrapCalleeMut(p) ==
    LET s == Snapshot(p)
        o == ExistingOffer(s)
        r == createAnswer(pc[p], p, o.signal_data) IN
    /\ pos[p] = "replayed"
    /\ OfferRows(s) # {}
    /\ o.sender_id # p
    /\ r.ok
    /\ pos' = [pos EXCEPT ![p] = "live"]
    /\ role' = [role EXCEPT ![p] = "callee"]
    /\ applied' = [applied EXCEPT
                     ![p] = ApplyRemoteIce(pc[p], applied[p], s, p)]
    /\ pc' = [pc EXCEPT ![p] = r.pc]
    /\ StoreSignal(p, Signal("answer", p, Answer(p, o.signal_data)))
    /\ UNCHANGED <<snapLen, delivered, dups, cands, restarts, offerSeq, leaves,
                   error, notes>>
    /\ UNCHANGED asyncVars
    /\ UNCHANGED hookVars

\* the first offer of the replay is from the other sender: this peer is the
\* callee; it answers and then applies the replayed remote candidates
BootstrapCallee(p) ==
    LET s == Snapshot(p)
        o == ExistingOffer(s)
        r == createAnswer(pc[p], p, o.signal_data) IN
    /\ pos[p] = "replayed"
    /\ OfferRows(s) # {}
    /\ o.sender_id # p
    /\ pos' = [pos EXCEPT ![p] = "live"]
    /\ role' = [role EXCEPT ![p] = "callee"]
    /\ pc' = [pc EXCEPT ![p] = r.pc]
    /\ IF r.ok
       THEN /\ StoreSignal(p, Signal("answer", p, Answer(p, o.signal_data)))
            /\ applied' = [applied EXCEPT
                             ![p] = ApplyRemoteIce(r.pc, applied[p], s, p)]
            /\ UNCHANGED error
       ELSE /\ error' = [error EXCEPT ![p] = TRUE]
            /\ UNCHANGED <<log, inbox, applied>>
    /\ UNCHANGED <<snapLen, delivered, dups, cands, restarts, offerSeq, leaves,
                   notes>>
    /\ UNCHANGED asyncVars
    /\ UNCHANGED hookVars

\* an own-offer branch that offers again
BootstrapWaitMut(p) ==
    /\ pos[p] = "replayed"
    /\ OfferRows(Snapshot(p)) # {}
    /\ ExistingOffer(Snapshot(p)).sender_id = p
    /\ pos' = [pos EXCEPT ![p] = "live"]
    /\ role' = [role EXCEPT ![p] = "waiting"]
    /\ pc' = [pc EXCEPT ![p] = createOffer(pc[p], p, offerSeq[p] + 1).pc]
    /\ offerSeq' = [offerSeq EXCEPT ![p] = @ + 1]
    /\ StoreSignal(p, Signal("offer", p, Offer(p, offerSeq[p] + 1)))
    /\ UNCHANGED <<snapLen, delivered, dups, applied, cands, restarts, leaves,
                   error, notes>>
    /\ UNCHANGED asyncVars
    /\ UNCHANGED hookVars

\* the first offer of the replay is this peer's own: wait for the answer
BootstrapWait(p) ==
    LET s == Snapshot(p) IN
    /\ pos[p] = "replayed"
    /\ OfferRows(s) # {}
    /\ ExistingOffer(s).sender_id = p
    /\ pos' = [pos EXCEPT ![p] = "live"]
    /\ role' = [role EXCEPT ![p] = "waiting"]
    /\ UNCHANGED <<log, snapLen, inbox, delivered, dups, pc, applied, cands,
                   restarts, offerSeq, leaves, error, notes>>
    /\ UNCHANGED asyncVars
    /\ UNCHANGED hookVars

\* the channel hands row i to the live handler of p
Take(p, i) ==
    /\ pos[p] # "page"
    /\ i \in inbox[p]
    /\ delivered' = [delivered EXCEPT ![p] = @ \cup {i}]

\* a handler without the check of the sender: it answers its own offer and
\* stores the answer
DeliverOwnAnswerMut(p, i) ==
    LET m == log[i]
        r == createAnswer(Rollback(pc[p]).pc, p, m.signal_data)
        row == Signal("answer", p, Answer(p, m.signal_data)) IN
    /\ Subscribed(p)
    /\ m.sender_id = p
    /\ m.signal_type = "offer"
    /\ \A k \in 1..Len(log) : log[k] # row
    /\ pc' = [pc EXCEPT ![p] = r.pc]
    /\ StoreSignal(p, row)
    /\ UNCHANGED <<pos, snapLen, delivered, dups, applied, cands, restarts,
                   offerSeq, leaves, role, error, notes>>
    /\ UNCHANGED asyncVars
    /\ UNCHANGED hookVars

\* a handler that treats its own offer like a remote one
DeliverOwnMut(p, i) ==
    /\ Subscribed(p)
    /\ log[i].sender_id = p
    /\ log[i].signal_type = "offer"
    /\ pc' = [pc EXCEPT ![p] = createAnswer(Rollback(pc[p]).pc, p,
                                            log[i].signal_data).pc]
    /\ UNCHANGED <<log, pos, snapLen, inbox, delivered, dups, applied, cands,
                   restarts, offerSeq, leaves, role, error, notes>>
    /\ UNCHANGED asyncVars
    /\ UNCHANGED hookVars

\* live handler: a row of this peer's own is ignored
DeliverOwn(p, i) ==
    /\ Subscribed(p)
    /\ log[i].sender_id = p
    /\ UNCHANGED vars

\* an offer branch that drops a colliding offer instead of yielding to it
HandleOfferMut(c, p, offer) ==
    IF c.signalingState # "stable" THEN Fail(c) ELSE createAnswer(c, p, offer)

\* what the offer branch of the live handler does to the connection: roll
\* back when not stable (return when that fails), then createAnswer
HandleOffer(c, p, offer) ==
    IF c.signalingState # "stable"
    THEN LET rb == Rollback(c) IN
         IF rb.ok THEN createAnswer(rb.pc, p, offer) ELSE Fail(c)
    ELSE createAnswer(c, p, offer)

\* live handler, offer branch
DeliverOffer(p, i) ==
    LET m == log[i]
        r == HandleOffer(pc[p], p, m.signal_data) IN
    /\ Take(p, i)
    /\ m.sender_id # p
    /\ m.signal_type = "offer"
    /\ pc' = [pc EXCEPT ![p] = r.pc]
    /\ IF r.ok
       THEN /\ log' = Append(log, Signal("answer", p, Answer(p, m.signal_data)))
            /\ inbox' = [q \in Peers |->
                           IF q = p THEN inbox[q] \ {i}
                           ELSE IF Subscribed(q)
                           THEN inbox[q] \cup {Len(log) + 1}
                           ELSE inbox[q]]
       ELSE /\ inbox' = [inbox EXCEPT ![p] = @ \ {i}]
            /\ UNCHANGED log
    /\ IF pc[p].signalingState # "stable" /\ Rollback(pc[p]).ok
       THEN Note("rolled-back", p) ELSE UNCHANGED notes
    /\ UNCHANGED <<pos, snapLen, dups, applied, cands, restarts, offerSeq,
                   leaves, role, error>>
    /\ UNCHANGED asyncVars
    /\ UNCHANGED hookVars

\* an answer branch that takes every answer over, whatever the state
HandleAnswerMut(c, answer) ==
    [c EXCEPT !.signalingState = "stable",
              !.currentRemoteDescription = answer,
              !.currentLocalDescription = LocalDescription(c),
              !.pendingLocalDescription = NoDesc]

\* what the answer branch of the live handler does to the connection
HandleAnswer(c, answer) ==
    IF c.signalingState # "have-local-offer" THEN c
    ELSE setRemoteDescription(c, answer).pc

\* live handler, answer branch
DeliverAnswer(p, i) ==
    LET m == log[i] IN
    /\ Take(p, i)
    /\ m.sender_id # p
    /\ m.signal_type = "answer"
    /\ pc' = [pc EXCEPT ![p] = HandleAnswer(pc[p], m.signal_data)]
    /\ inbox' = [inbox EXCEPT ![p] = @ \ {i}]
    /\ IF pc[p].signalingState # "have-local-offer"
       THEN Note("ignored-answer", p) ELSE UNCHANGED notes
    /\ UNCHANGED <<log, pos, snapLen, dups, applied, cands, restarts,
                   offerSeq, leaves, role, error>>
    /\ UNCHANGED asyncVars
    /\ UNCHANGED hookVars

\* live handler, ice branch: a rejected candidate is logged and forgotten
DeliverIce(p, i) ==
    LET m == log[i] IN
    /\ Take(p, i)
    /\ m.sender_id # p
    /\ m.signal_type = "ice"
    /\ applied' = [applied EXCEPT
                     ![p] = addIceCandidate(pc[p], applied[p], m.signal_data)]
    /\ inbox' = [inbox EXCEPT ![p] = @ \ {i}]
    /\ UNCHANGED <<log, pos, snapLen, dups, pc, cands, restarts, offerSeq,
                   leaves, role, error, notes>>
    /\ UNCHANGED asyncVars
    /\ UNCHANGED hookVars

\* at-least-once delivery: the channel delivers a delivered row again
Redeliver(p, i) ==
    /\ dups < MaxDup
    /\ i \in delivered[p]
    /\ i \notin inbox[p]
    /\ inbox' = [inbox EXCEPT ![p] = @ \cup {i}]
    /\ dups' = dups + 1
    /\ UNCHANGED <<log, pos, snapLen, delivered, pc, applied, cands, restarts,
                   offerSeq, leaves, role, error, notes>>
    /\ UNCHANGED asyncVars
    /\ UNCHANGED hookVars

\* onIceCandidate: the connection gathers a candidate once it has a local
\* description, and the callback stores it (max: how many the room gathers)
GatherCandidate(p, max) ==
    /\ Subscribed(p)
    /\ pos[p] # "page"
    /\ LocalDescription(pc[p]) # NoDesc
    /\ cands < max
    /\ cands' = cands + 1
    /\ StoreSignal(p, Signal("ice", p, Candidate(p, cands + 1)))
    /\ UNCHANGED <<pos, snapLen, delivered, dups, pc, applied, restarts,
                   offerSeq, leaves, role, error, notes>>
    /\ UNCHANGED asyncVars
    /\ UNCHANGED hookVars

\* The transport's connectivity is one state here: a transition fires the
\* service's onconnectionstatechange (restart on failed) and the hook's
\* oniceconnectionstatechange, which hands the state to setConnectionState.
ConnStates == {"connected", "failed"}

\* onconnectionstatechange: the transport reports a new connectivity state;
\* failed starts an ICE restart
ConnectionStateChange(p, s) ==
    /\ Subscribed(p)
    /\ RemoteDescription(pc[p]) # NoDesc
    /\ s # pc[p].connectionState
    /\ s = "connected" => /\ pc[p].signalingState = "stable"
                          /\ pc[p].currentLocalDescription # NoDesc
    /\ s = "failed" => restarts < MaxRestart
    /\ LET c == [pc[p] EXCEPT !.connectionState = s] IN
       IF s = "failed"
       THEN /\ pc' = [pc EXCEPT ![p] = restartIce(c, p, offerSeq[p] + 1)]
            /\ offerSeq' = [offerSeq EXCEPT
                              ![p] = IF CanCreateOffer(c) THEN @ + 1 ELSE @]
            /\ restarts' = restarts + 1
       ELSE /\ pc' = [pc EXCEPT ![p] = c]
            /\ UNCHANGED <<offerSeq, restarts>>
    /\ UNCHANGED <<log, pos, snapLen, inbox, delivered, dups, applied, cands,
                   leaves, role, error, notes>>
    /\ UNCHANGED asyncVars
    /\ connectionState' = [connectionState EXCEPT ![p] = s]
    /\ UNCHANGED callVars

\* leaveSession -> cleanup: the WebRTCService is closed and dropped and the
\* channel is removed
Leave(p) ==
    /\ pos[p] = "live"
    /\ leaves < MaxLeave
    /\ leaves' = leaves + 1
    /\ pos' = [pos EXCEPT ![p] = "idle"]
    /\ pc' = [pc EXCEPT ![p] = ClosedPC]
    /\ inbox' = [inbox EXCEPT ![p] = {}]
    /\ delivered' = [delivered EXCEPT ![p] = {}]
    /\ role' = [role EXCEPT ![p] = "none"]
    /\ roomId' = [roomId EXCEPT ![p] = FALSE]
    /\ media' = [media EXCEPT ![p] = "stopped"]
    /\ UNCHANGED <<log, snapLen, dups, applied, cands, restarts, offerSeq,
                   error, notes, tasks, restarting>>
    /\ connectionState' = [connectionState EXCEPT ![p] = "closed"]
    /\ UNCHANGED callVars

\* ------------------------------------------- steps between the awaits
\* The actions below show the same handlers with their suspension points:
\* initializeSession waits for getUserMedia, the offer branch waits inside
\* createAnswer, restartIce waits for createOffer, and cleanup may run in
\* between.

\* joinSessionWithUser up to the first await of initializeSession
JoinStart(p) ==
    /\ pos[p] = "idle"
    /\ pos' = [pos EXCEPT ![p] = "acquiring"]
    /\ error' = [error EXCEPT ![p] = FALSE]
    /\ roomId' = [roomId EXCEPT ![p] = TRUE]
    /\ media' = [media EXCEPT ![p] = "pending"]
    /\ UNCHANGED <<log, snapLen, inbox, delivered, dups, pc, applied, cands,
                   restarts, offerSeq, leaves, role, notes, tasks, restarting>>
    /\ UNCHANGED hookVars

\* getUserMedia resolved: the stream is live, a new WebRTCService is created,
\* bound to it and stored in the ref, and the subscription is armed.  Nothing
\* looks at whether the session was left in the meantime.
JoinResume(p) ==
    /\ pos[p] = "acquiring"
    /\ pos' = [pos EXCEPT ![p] = "subscribed"]
    /\ media' = [media EXCEPT ![p] = "live"]
    /\ pc' = [pc EXCEPT ![p] = initialize(NewPC, "live").pc]
    /\ applied' = [applied EXCEPT ![p] = <<>>]
    /\ acq' = [acq EXCEPT ![p] = Acquired("ok", "ok")]
    /\ UNCHANGED <<log, snapLen, inbox, delivered, dups, cands, restarts,
                   offerSeq, leaves, role, error, notes, roomId, tasks,
                   restarting>>
    /\ UNCHANGED <<connectionState, room, lost, faults>>
    /\ gen' = [gen EXCEPT ![p] = @ + 1]
    /\ trackEnabled' = [trackEnabled EXCEPT
                          ![p] = [video |-> TRUE, audio |-> TRUE]]
    /\ UNCHANGED <<isCameraOn, isMicOn>>

\* a close that forgets the stream it was bound to
closeMut(c, m) ==
    [ok |-> c.signalingState # "closed", pc |-> ClosedPC, stream |-> m]

\* WebRTCService.close(): both parts are guarded, nothing in it throws
close(c, m) ==
    [ok |-> TRUE,
     pc |-> IF c.signalingState # "closed" THEN ClosedPC ELSE c,
     stream |-> IF m \in {"live", "audio"} THEN "stopped" ELSE m]

\* cleanup (leaveSession, endSession, unmount), at any point of the session.
\* Its own localStream is the one of the first render (none); the service and
\* the channel are released when the refs hold them.
Cleanup(p) ==
    LET r == close(pc[p], media[p]) IN
    /\ pos[p] # "idle"
    /\ leaves < MaxLeave
    /\ leaves' = leaves + 1
    /\ roomId' = [roomId EXCEPT ![p] = FALSE]
    /\ IF Subscribed(p)
       THEN /\ pc' = [pc EXCEPT ![p] = r.pc]
            /\ media' = [media EXCEPT ![p] = r.stream]
            /\ inbox' = [inbox EXCEPT ![p] = {}]
       ELSE UNCHANGED <<pc, media, inbox>>
    /\ UNCHANGED <<log, pos, snapLen, delivered, dups, applied, cands,
                   restarts, offerSeq, role, error, notes, tasks, restarting>>
    /\ connectionState' = [connectionState EXCEPT ![p] = "closed"]
    /\ UNCHANGED callVars

\* live handler, offer branch, up to the first await inside createAnswer:
\* rollback when not stable, then setRemoteDescription(offer)
OfferBegin(p, i) ==
    LET m == log[i]
        c == pc[p]
        rb == IF c.signalingState # "stable" THEN Rollback(c) ELSE Ok(c)
        r == IF rb.ok THEN PcSetRemoteDescription(rb.pc, m.signal_data)
             ELSE Fail(c) IN
    /\ Take(p, i)
    /\ m.sender_id # p
    /\ m.signal_type = "offer"
    /\ pc' = [pc EXCEPT ![p] = IF r.ok THEN r.pc ELSE rb.pc]
    /\ tasks' = [tasks EXCEPT ![p] = IF r.ok THEN @ \cup {i} ELSE @]
    /\ inbox' = [inbox EXCEPT ![p] = @ \ {i}]
    /\ IF c.signalingState # "stable" /\ rb.ok
       THEN Note("rolled-back", p) ELSE UNCHANGED notes
    /\ UNCHANGED <<log, pos, snapLen, dups, applied, cands, restarts, offerSeq,
                   leaves, role, error, roomId, media, restarting>>
    /\ UNCHANGED hookVars

\* the rest of the offer branch: pc.createAnswer answers the remote offer that
\* is pending now, setLocalDescription commits it, storeSignal publishes it;
\* a rejection is caught and logged
OfferEnd(p, i) ==
    LET a == Answer(p, pc[p].pendingRemoteDescription)
        r == SetLocalDescription(pc[p], a) IN
    /\ i \in tasks[p]
    /\ tasks' = [tasks EXCEPT ![p] = @ \ {i}]
    /\ pc' = [pc EXCEPT ![p] = r.pc]
    /\ IF r.ok
       THEN StoreSignal(p, Signal("answer", p, a))
       ELSE UNCHANGED <<log, inbox>>
    /\ UNCHANGED <<pos, snapLen, delivered, dups, applied, cands, restarts,
                   offerSeq, leaves, role, error, notes, roomId, media,
                   restarting>>
    /\ UNCHANGED hookVars

\* an onconnectionstatechange that keeps retrying in the same callback
ConnectionFailedMut(p) ==
    /\ Subscribed(p)
    /\ pc[p].connectionState # "failed"
    /\ restarts < MaxFail
    /\ restarts' = restarts + 2
    /\ pc' = [pc EXCEPT ![p].connectionState = "failed"]
    /\ UNCHANGED <<log, pos, snapLen, inbox, delivered, dups, applied, cands,
                   offerSeq, leaves, role, error, notes, roomId, media, tasks,
                   restarting>>
    /\ connectionState' = [connectionState EXCEPT ![p] = "failed"]
    /\ UNCHANGED callVars

\* a failure callback that gives the session up: cleanup instead of a restart
ConnectionFailedEndsMut(p) ==
    /\ Subscribed(p)
    /\ LocalDescription(pc[p]) # NoDesc
    /\ RemoteDescription(pc[p]) # NoDesc
    /\ pc[p].connectionState # "failed"
    /\ restarts < MaxFail
    /\ restarts' = restarts + 1
    /\ pc' = [pc EXCEPT ![p] = ClosedPC]
    /\ inbox' = [inbox EXCEPT ![p] = {}]
    /\ roomId' = [roomId EXCEPT ![p] = FALSE]
    /\ connectionState' = [connectionState EXCEPT ![p] = "closed"]
    /\ UNCHANGED <<log, pos, snapLen, delivered, dups, applied, cands,
                   offerSeq, leaves, role, error, notes, media, tasks,
                   restarting>>
    /\ UNCHANGED callVars

\* onconnectionstatechange with state failed: restartIce runs up to its
\* first await; a rejected createOffer is caught and logged
ConnectionFailed(p) ==
    /\ Subscribed(p)
    /\ LocalDescription(pc[p]) # NoDesc
    /\ RemoteDescription(pc[p]) # NoDesc
    /\ pc[p].connectionState # "failed"
    /\ restarting[p] = 0
    /\ restarts < MaxFail
    /\ restarts' = restarts + 1
    /\ pc' = [pc EXCEPT ![p].connectionState = "failed"]
    /\ IF CanCreateOffer(pc[p])
       THEN /\ offerSeq' = [offerSeq EXCEPT ![p] = @ + 1]
            /\ restarting' = [restarting EXCEPT ![p] = offerSeq[p] + 1]
       ELSE UNCHANGED <<offerSeq, restarting>>
    /\ UNCHANGED <<log, pos, snapLen, inbox, delivered, dups, applied, cands,
                   leaves, role, error, notes, roomId, media, tasks>>
    /\ connectionState' = [connectionState EXCEPT ![p] = "failed"]
    /\ UNCHANGED callVars

\* restartIce after its await: setLocalDescription(offer); a rejection, or a
\* connection that was dropped by close in the meantime, is caught and logged
RestartResume(p) ==
    LET r == SetLocalDescription(pc[p], Offer(p, restarting[p])) IN
    /\ restarting[p] # 0
    /\ restarting' = [restarting EXCEPT ![p] = 0]
    /\ pc' = [pc EXCEPT ![p] = r.pc]
    /\ UNCHANGED <<log, pos, snapLen, inbox, delivered, dups, applied, cands,
                   restarts, offerSeq, leaves, role, error, notes, roomId,
                   media, tasks>>
    /\ UNCHANGED hookVars

ConnProgress == {"connecting", "connected"}

\* onconnectionstatechange with another state: logged only
ConnectionProgress(p, s) ==
    /\ Subscribed(p)
    /\ LocalDescription(pc[p]) # NoDesc
    /\ RemoteDescription(pc[p]) # NoDesc
    /\ s # pc[p].connectionState
    /\ s = "connected" => pc[p].connectionState = "connecting"
    /\ pc' = [pc EXCEPT ![p].connectionState = s]
    /\ UNCHANGED <<log, pos, snapLen, inbox, delivered, dups, applied, cands,
                   restarts, offerSeq, leaves, role, error, notes, roomId,
                   media, tasks, restarting>>
    /\ connectionState' = [connectionState EXCEPT ![p] = s]
    /\ UNCHANGED callVars

\* ------------------------------------------ failures of the signal channel
\* The actions below are the same steps when a call to the signals table is
\* rejected (storeSignal and getSignals throw on a Supabase error), and the
\* rows of a writer whose payload is malformed (signal_data is of type any).

FaultTypes == {"offer", "answer", "ice"}

\* a row of type t with a malformed payload is stored under the sender id q
InjectMalformed(q, t) ==
    /\ faults < MaxFault
    /\ faults' = faults + 1
    /\ StoreSignal(q, Signal(t, q, Malformed))
    /\ UNCHANGED <<pos, snapLen, delivered, dups, pc, applied, cands,
                   restarts, offerSeq, leaves, role, error, notes>>
    /\ UNCHANGED <<asyncVars, connectionState, room, acq, lost, instVars>>

\* getSignals is rejected: initializeSession rethrows and the join sets the
\* error; the service and the armed subscription stay
ReplayFails(p) ==
    /\ pos[p] = "subscribed"
    /\ faults < MaxFault
    /\ faults' = faults + 1
    /\ lost' = lost \cup {<<"replay", p>>}
    /\ pos' = [pos EXCEPT ![p] = "live"]
    /\ error' = [error EXCEPT ![p] = TRUE]
    /\ UNCHANGED <<log, snapLen, inbox, delivered, dups, pc, applied, cands,
                   restarts, offerSeq, leaves, role, notes>>
    /\ UNCHANGED <<asyncVars, connectionState, room, acq, instVars>>

\* caller branch, storeSignal(offer) is rejected: the offer stays committed,
\* initializeSession rethrows and the join sets the error
BootstrapCallerStoreFails(p) ==
    LET r == createOffer(pc[p], p, offerSeq[p] + 1) IN
    /\ pos[p] = "replayed"
    /\ OfferRows(Snapshot(p)) = {}
    /\ r.ok
    /\ faults < MaxFault
    /\ faults' = faults + 1
    /\ lost' = lost \cup {<<"offer", p>>}
    /\ pos' = [pos EXCEPT ![p] = "live"]
    /\ role' = [role EXCEPT ![p] = "caller"]
    /\ pc' = [pc EXCEPT ![p] = r.pc]
    /\ offerSeq' = [offerSeq EXCEPT ![p] = @ + 1]
    /\ error' = [error EXCEPT ![p] = TRUE]
    /\ UNCHANGED <<log, snapLen, inbox, delivered, dups, applied, cands,
                   restarts, leaves, notes>>
    /\ UNCHANGED <<asyncVars, connectionState, room, acq, instVars>>

\* callee branch, storeSignal(answer) is rejected: the answer stays
\* committed, the replayed candidates are not reached, the join sets the error
BootstrapCalleeStoreFails(p) ==
    LET s == Snapshot(p)
        o == ExistingOffer(s)
        r == createAnswer(pc[p], p, o.signal_data) IN
    /\ pos[p] = "replayed"
    /\ OfferRows(s) # {}
    /\ o.sender_id # p
    /\ r.ok
    /\ faults < MaxFault
    /\ faults' = faults + 1
    /\ lost' = lost \cup {<<"answer", p>>}
    /\ pos' = [pos EXCEPT ![p] = "live"]
    /\ role' = [role EXCEPT ![p] = "callee"]
    /\ pc' = [pc EXCEPT ![p] = r.pc]
    /\ error' = [error EXCEPT ![p] = TRUE]
    /\ UNCHANGED <<log, snapLen, inbox, delivered, dups, applied, cands,
                   restarts, offerSeq, leaves, notes>>
    /\ UNCHANGED <<asyncVars, connectionState, room, acq, instVars>>

\* live handler, offer branch, storeSignal(answer) is rejected: the answer
\* stays committed; the catch of the handler logs the error
DeliverOfferStoreFails(p, i) ==
    LET m == log[i]
        r == HandleOffer(pc[p], p, m.signal_data) IN
    /\ Take(p, i)
    /\ m.sender_id # p
    /\ m.signal_type = "offer"
    /\ r.ok
    /\ faults < MaxFault
    /\ faults' = faults + 1
    /\ lost' = lost \cup {<<"live-answer", p>>}
    /\ pc' = [pc EXCEPT ![p] = r.pc]
    /\ inbox' = [inbox EXCEPT ![p] = @ \ {i}]
    /\ IF pc[p].signalingState # "stable"
       THEN Note("rolled-back", p) ELSE UNCHANGED notes
    /\ UNCHANGED <<log, pos, snapLen, dups, applied, cands, restarts, offerSeq,
                   leaves, role, error>>
    /\ UNCHANGED <<asyncVars, connectionState, room, acq, instVars>>

\* onIceCandidate, storeSignal(candidate) is rejected: the callback's promise
\* is rejected and nothing awaits it
GatherCandidateStoreFails(p) ==
    /\ Subscribed(p)
    /\ LocalDescription(pc[p]) # NoDesc
    /\ cands < MaxCand
    /\ cands' = cands + 1
    /\ faults < MaxFault
    /\ faults' = faults + 1
    /\ lost' = lost \cup {<<"ice", p>>}
    /\ UNCHANGED <<log, pos, snapLen, inbox, delivered, dups, pc, applied,
                   restarts, offerSeq, leaves, role, error, notes>>
    /\ UNCHANGED <<asyncVars, connectionState, room, acq, instVars>>

\* ------------------------------------------------- the room and the media
\* an initializeSession that binds a WebRTCService and arms the channel
\* although getUserMedia returned no stream
CheckRoomAndJoinNoStreamMut(p, e1, e2) ==
    /\ pos[p] = "idle"
    /\ room.status = "active"
    /\ Acquired(e1, e2).stream = "none"
    /\ acq' = [acq EXCEPT ![p] = Acquired(e1, e2)]
    /\ pos' = [pos EXCEPT ![p] = "subscribed"]
    /\ pc' = [pc EXCEPT ![p] = NewPC]
    /\ gen' = [gen EXCEPT ![p] = @ + 1]
    /\ roomId' = [roomId EXCEPT ![p] = TRUE]
    /\ UNCHANGED <<log, snapLen, inbox, delivered, dups, applied, cands,
                   restarts, offerSeq, leaves, role, error, notes, media,
                   tasks, restarting, connectionState, room, lost, faults,
                   isCameraOn, isMicOn, trackEnabled>>

\* a checkRoomAndJoin that joins whatever the status of the room
CheckRoomAndJoinMut(p, e1, e2) ==
    /\ Join(p)
    /\ e1 = "ok"
    /\ e2 = "ok"

\* the room page: checkRoomAndJoin reads the room's row and calls joinSession
\* only for an active room.  joinSessionWithUser resets the error, sets the
\* roomId and runs initializeSession: getUserMedia (answered e1, and e2 for
\* the audio-only call), a new WebRTCService bound to the stream, the armed
\* subscription.  A rejected getUserMedia is rethrown and becomes the error.
CheckRoomAndJoin(p, e1, e2) ==
    LET a == Acquired(e1, e2) IN
    /\ pos[p] = "idle"
    /\ IF room.status # "active"
       THEN /\ Note("session-ended", p)
            /\ UNCHANGED <<pos, pc, applied, error, roomId, media, acq>>
            /\ UNCHANGED <<gen, trackEnabled>>
       ELSE /\ acq' = [acq EXCEPT ![p] = a]
            /\ error' = [error EXCEPT ![p] = (a.stream = "none")]
            /\ roomId' = [roomId EXCEPT ![p] = TRUE]
            /\ IF a.stream # "none"
               THEN /\ pos' = [pos EXCEPT ![p] = "subscribed"]
                    /\ pc' = [pc EXCEPT ![p] = initialize(NewPC, a.stream).pc]
                    /\ applied' = [applied EXCEPT ![p] = <<>>]
                    /\ media' = [media EXCEPT ![p] = a.stream]
                    /\ gen' = [gen EXCEPT ![p] = @ + 1]
                    /\ trackEnabled' = [trackEnabled EXCEPT
                                          ![p] = [video |-> TRUE,
                                                  audio |-> TRUE]]
               ELSE UNCHANGED <<pos, pc, applied, media, gen, trackEnabled>>
            /\ UNCHANGED notes
    /\ UNCHANGED <<log, snapLen, inbox, delivered, dups, cands, restarts,
                   offerSeq, leaves, role, tasks, restarting>>
    /\ UNCHANGED <<connectionState, room, lost, faults>>
    /\ UNCHANGED <<isCameraOn, isMicOn>>

\* a shareScreen that renegotiates after the replacement
ShareScreenMut(p) ==
    LET c == [pc[p] EXCEPT !.videoSender = "screen"]
        r == createOffer(c, p, offerSeq[p] + 1) IN
    /\ Subscribed(p)
    /\ pc[p].videoSender # "screen"
    /\ r.ok
    /\ pc' = [pc EXCEPT ![p] = r.pc]
    /\ offerSeq' = [offerSeq EXCEPT ![p] = @ + 1]
    /\ StoreSignal(p, Signal("offer", p, Offer(p, offerSeq[p] + 1)))
    /\ UNCHANGED <<pos, snapLen, delivered, dups, applied, cands, restarts,
                   leaves, role, error, notes>>
    /\ UNCHANGED <<asyncVars, hookVars>>

\* shareScreen with a service that holds a connection: the video sender's
\* track is replaced by the screen track; without a video sender the screen
\* track is added with pc.addTrack.  Nothing else is done in either case.
ShareScreen(p) ==
    /\ Subscribed(p)
    /\ pc[p].videoSender # "screen"
    /\ pc' = [pc EXCEPT ![p].videoSender = "screen"]
    /\ UNCHANGED <<log, pos, snapLen, inbox, delivered, dups, applied, cands,
                   restarts, offerSeq, leaves, role, error, notes>>
    /\ UNCHANGED <<asyncVars, hookVars>>

\* stopScreenShare: with a local stream and a service, the camera track of
\* the stream goes back on the video sender when both exist
StopScreenShare(p) ==
    /\ Subscribed(p)
    /\ media[p] = "live"
    /\ pc[p].videoSender = "screen"
    /\ pc' = [pc EXCEPT ![p].videoSender = "camera"]
    /\ UNCHANGED <<log, pos, snapLen, inbox, delivered, dups, applied, cands,
                   restarts, offerSeq, leaves, role, error, notes>>
    /\ UNCHANGED <<asyncVars, hookVars>>

\* updateRoomStatus(roomId, status): the row is updated whatever it holds;
\* ended_at is written again by every update to ended (ends counts them)
updateRoomStatus(r, status) ==
    [status |-> status,
     ends |-> IF status = "ended" THEN r.ends + 1 ELSE r.ends]

\* endSession of a bootstrapped session: with a roomId the room is updated
\* to ended (ok: the update is accepted); a rejected update is caught and
\* becomes the error; cleanup runs in the finally block either way (service
\* closed, channel removed, state reset)
EndSession(p, ok) ==
    LET r == close(pc[p], media[p]) IN
    /\ roomId[p]
    /\ pos[p] = "live"
    /\ IF ok
       THEN /\ room' = updateRoomStatus(room, "ended")
            /\ UNCHANGED <<error, lost, faults>>
       ELSE /\ faults < MaxFault
            /\ faults' = faults + 1
            /\ lost' = lost \cup {<<"end", p>>}
            /\ error' = [error EXCEPT ![p] = TRUE]
            /\ UNCHANGED room
    /\ roomId' = [roomId EXCEPT ![p] = FALSE]
    /\ connectionState' = [connectionState EXCEPT ![p] = "closed"]
    /\ pc' = [pc EXCEPT ![p] = r.pc]
    /\ media' = [media EXCEPT ![p] = r.stream]
    /\ pos' = [pos EXCEPT ![p] = "idle"]
    /\ inbox' = [inbox EXCEPT ![p] = {}]
    /\ delivered' = [delivered EXCEPT ![p] = {}]
    /\ role' = [role EXCEPT ![p] = "none"]
    /\ UNCHANGED <<log, snapLen, dups, applied, cands, restarts, offerSeq,
                   leaves, notes, tasks, restarting, acq>>
    /\ UNCHANGED instVars

\* live handler, no branch: a row that is no offer, no answer and no ice
\* falls through the handler
DeliverOther(p, i) ==
    LET m == log[i] IN
    /\ Take(p, i)
    /\ m.sender_id # p
    /\ m.signal_type \notin {"offer", "answer", "ice"}
    /\ inbox' = [inbox EXCEPT ![p] = @ \ {i}]
    /\ UNCHANGED <<log, pos, snapLen, dups, pc, applied, cands, restarts,
                   offerSeq, leaves, role, error, notes>>
    /\ UNCHANGED asyncVars
    /\ UNCHANGED hookVars

\* ------------------------------------- the room page's own signalling
\* The room page that does not use the hook joins the same room through
\* the same signals table with its own handlers (pos "page").

\* initializeRoom, shown as one step: getUserMedia, both tracks enabled, the
\* room's row read (an ended room is left at once), a new WebRTCService
\* bound to the stream, the candidate callback, getSignals - an offer is
\* created and stored when the room has no row yet - and only then the
\* subscription
InitializeRoom(p) ==
    LET c == initialize(NewPC, "live").pc
        r == createOffer(c, p, offerSeq[p] + 1) IN
    /\ pos[p] = "idle"
    /\ IF room.status = "ended"
       THEN /\ Note("session-ended", p)
            /\ UNCHANGED <<log, inbox, pos, pc, applied, offerSeq, media,
                           acq, gen, trackEnabled>>
       ELSE /\ pos' = [pos EXCEPT ![p] = "page"]
            /\ applied' = [applied EXCEPT ![p] = <<>>]
            /\ media' = [media EXCEPT ![p] = "live"]
            /\ acq' = [acq EXCEPT ![p] = Acquired("ok", "ok")]
            /\ gen' = [gen EXCEPT ![p] = @ + 1]
            /\ trackEnabled' = [trackEnabled EXCEPT
                                  ![p] = [video |-> TRUE, audio |-> TRUE]]
            /\ IF Len(log) = 0
               THEN /\ pc' = [pc EXCEPT ![p] = r.pc]
                    /\ offerSeq' = [offerSeq EXCEPT ![p] = @ + 1]
                    /\ StoreSignal(p, Signal("offer", p,
                                             Offer(p, offerSeq[p] + 1)))
               ELSE /\ pc' = [pc EXCEPT ![p] = c]
                    /\ UNCHANGED <<log, inbox, offerSeq>>
            /\ UNCHANGED notes
    /\ UNCHANGED <<snapLen, delivered, dups, cands, restarts, leaves, role,
                   error, roomId, tasks, restarting, connectionState, room,
                   lost, faults, isCameraOn, isMicOn>>

\* the channel hands a row to the room page's handler
PageTake(p, i) ==
    /\ pos[p] = "page"
    /\ i \in inbox[p]
    /\ delivered' = [delivered EXCEPT ![p] = @ \cup {i}]

\* the room page's onIceCandidate callback stores the candidate
PageGatherCandidate(p) ==
    /\ pos[p] = "page"
    /\ Subscribed(p)
    /\ LocalDescription(pc[p]) # NoDesc
    /\ cands < MaxCand
    /\ cands' = cands + 1
    /\ StoreSignal(p, Signal("ice-candidate", p, Candidate(p, cands + 1)))
    /\ UNCHANGED <<pos, snapLen, delivered, dups, pc, applied, restarts,
                   offerSeq, leaves, role, error, notes>>
    /\ UNCHANGED asyncVars
    /\ UNCHANGED hookVars

\* subscribeToSignals of the room page, offer branch: createAnswer and the
\* answer stored; an error is caught and logged
PageDeliverOffer(p, i) ==
    LET m == log[i]
        r == createAnswer(pc[p], p, m.signal_data) IN
    /\ PageTake(p, i)
    /\ m.sender_id # p
    /\ m.signal_type = "offer"
    /\ pc' = [pc EXCEPT ![p] = r.pc]
    /\ IF r.ok
       THEN /\ log' = Append(log, Signal("answer", p, Answer(p, m.signal_data)))
            /\ inbox' = [q \in Peers |->
                           IF q = p THEN inbox[q] \ {i}
                           ELSE IF Subscribed(q)
                           THEN inbox[q] \cup {Len(log) + 1}
                           ELSE inbox[q]]
            /\ UNCHANGED notes
       ELSE /\ inbox' = [inbox EXCEPT ![p] = @ \ {i}]
            /\ Note("signal-error", p)
            /\ UNCHANGED log
    /\ UNCHANGED <<pos, snapLen, dups, applied, cands, restarts, offerSeq,
                   leaves, role, error>>
    /\ UNCHANGED asyncVars
    /\ UNCHANGED hookVars

\* subscribeToSignals of the room page, answer branch: setRemoteDescription
\* whatever the signaling state; an error is caught and logged
PageDeliverAnswer(p, i) ==
    LET m == log[i]
        r == setRemoteDescription(pc[p], m.signal_data) IN
    /\ PageTake(p, i)
    /\ m.sender_id # p
    /\ m.signal_type = "answer"
    /\ pc' = [pc EXCEPT ![p] = r.pc]
    /\ inbox' = [inbox EXCEPT ![p] = @ \ {i}]
    /\ IF r.ok THEN UNCHANGED notes ELSE Note("signal-error", p)
    /\ UNCHANGED <<log, pos, snapLen, dups, applied, cands, restarts,
                   offerSeq, leaves, role, error>>
    /\ UNCHANGED asyncVars
    /\ UNCHANGED hookVars

\* subscribeToSignals of the room page, ice-candidate branch
PageDeliverIce(p, i) ==
    LET m == log[i] IN
    /\ PageTake(p, i)
    /\ m.sender_id # p
    /\ m.signal_type = "ice-candidate"
    /\ applied' = [applied EXCEPT
                     ![p] = addIceCandidate(pc[p], applied[p], m.signal_data)]
    /\ inbox' = [inbox EXCEPT ![p] = @ \ {i}]
    /\ UNCHANGED <<log, pos, snapLen, dups, pc, cands, restarts, offerSeq,
                   leaves, role, error, notes>>
    /\ UNCHANGED asyncVars
    /\ UNCHANGED hookVars

\* subscribeToSignals of the room page, no branch
PageDeliverOther(p, i) ==
    LET m == log[i] IN
    /\ PageTake(p, i)
    /\ m.sender_id # p
    /\ m.signal_type \notin {"offer", "answer", "ice-candidate"}
    /\ inbox' = [inbox EXCEPT ![p] = @ \ {i}]
    /\ UNCHANGED <<log, pos, snapLen, dups, pc, applied, cands, restarts,
                   offerSeq, leaves, role, error, notes>>
    /\ UNCHANGED asyncVars
    /\ UNCHANGED hookVars

\* endSession of the room page: the room is updated to ended, then cleanup
\* (service closed, tracks stopped, channel unsubscribed); a rejected
\* update goes to the catch block, which shows a toast
PageEndSession(p, ok) ==
    LET r == close(pc[p], media[p]) IN
    /\ pos[p] = "page"
    /\ IF ok
       THEN /\ room' = updateRoomStatus(room, "ended")
            /\ pc' = [pc EXCEPT ![p] = r.pc]
            /\ media' = [media EXCEPT ![p] = r.stream]
            /\ pos' = [pos EXCEPT ![p] = "idle"]
            /\ inbox' = [inbox EXCEPT ![p] = {}]
            /\ delivered' = [delivered EXCEPT ![p] = {}]
            /\ UNCHANGED <<lost, faults, notes>>
       ELSE /\ faults < MaxFault
            /\ faults' = faults + 1
            /\ lost' = lost \cup {<<"end", p>>}
            /\ Note("end-failed", p)
            /\ UNCHANGED <<room, pc, media, pos, inbox, delivered>>
    /\ UNCHANGED <<log, snapLen, dups, applied, cands, restarts, offerSeq,
                   leaves, role, error, roomId, tasks, restarting,
                   connectionState, acq>>
    /\ UNCHANGED instVars

\* ------------------------------------------------ camera and microphone
\* what the caller of a toggle passes for enabled
ToggleArgs == {"undefined", "true", "false"}

\* the state a toggle sets: the argument, or the opposite of the flag
NewState(e, flag) == IF e = "undefined" THEN ~flag ELSE e = "true"

\* toggleCamera(enabled): with a local stream, MediaService.toggleVideo
\* sets enabled on each video track of the stream, then setIsCameraOn
ToggleCamera(p, e) ==
    LET newState == NewState(e, isCameraOn[p]) IN
    /\ media[p] \in {"live", "audio"}
    /\ isCameraOn' = [isCameraOn EXCEPT ![p] = newState]
    /\ trackEnabled' = [trackEnabled EXCEPT
                          ![p].video = IF media[p] = "live" THEN newState
                                       ELSE @]
    /\ UNCHANGED <<log, pos, snapLen, inbox, delivered, dups, pc, applied,
                   cands, restarts, offerSeq, leaves, role, error, notes>>
    /\ UNCHANGED asyncVars
    /\ UNCHANGED <<connectionState, room, acq, lost, faults, gen, isMicOn>>

\* toggleMicrophone(enabled): the same with MediaService.toggleAudio and
\* setIsMicOn
ToggleMicrophone(p, e) ==
    LET newState == NewState(e, isMicOn[p]) IN
    /\ media[p] \in {"live", "audio"}
    /\ isMicOn' = [isMicOn EXCEPT ![p] = newState]
    /\ trackEnabled' = [trackEnabled EXCEPT ![p].audio = newState]
    /\ UNCHANGED <<log, pos, snapLen, inbox, delivered, dups, pc, applied,
                   cands, restarts, offerSeq, leaves, role, error, notes>>
    /\ UNCHANGED asyncVars
    /\ UNCHANGED <<connectionState, room, acq, lost, faults, gen,
                   isCameraOn>>

Next ==
    \/ \E p \in Peers : Join(p)
    \/ \E p \in Peers : Replay(p)
    \/ \E p \in Peers : BootstrapCaller(p)
    \/ \E p \in Peers : BootstrapCallee(p)
    \/ \E p \in Peers : GatherCandidate(p, MaxCand)
    \/ \E p \in Peers, s \in ConnStates : ConnectionStateChange(p, s)
    \/ \E p \in Peers, i \in 1..Len(log) : DeliverOwn(p, i)
    \/ \E p \in Peers, i \in 1..Len(log) : DeliverOffer(p, i)
    \/ \E p \in Peers, i \in 1..Len(log) : DeliverAnswer(p, i)
    \/ \E p \in Peers, i \in 1..Len(log) : DeliverIce(p, i)
    \/ \E p \in Peers, i \in 1..Len(log) : Redeliver(p, i)

\* one session per peer: join, negotiate, stay
Spec == Init /\ [][Next]_vars

\* sessions in which a peer may leave and join again under the same id
NextRejoin ==
    \/ \E p \in Peers : Join(p)
    \/ \E p \in Peers : Replay(p)
    \/ \E p \in Peers : BootstrapCaller(p)
    \/ \E p \in Peers : BootstrapCallee(p)
    \/ \E p \in Peers : BootstrapWait(p)
    \/ \E p \in Peers, i \in 1..Len(log) : DeliverOwn(p, i)
    \/ \E p \in Peers, i \in 1..Len(log) : DeliverOffer(p, i)
    \/ \E p \in Peers, i \in 1..Len(log) : DeliverAnswer(p, i)
    \/ \E p \in Peers : Leave(p)

SpecRejoin == Init /\ [][NextRejoin]_vars

\* sessions with their suspension points, cleanup and connectivity failures
NextAsync ==
    \/ \E p \in Peers : JoinStart(p)
    \/ \E p \in Peers : JoinResume(p)
    \/ \E p \in Peers : Replay(p)
    \/ \E p \in Peers : BootstrapCaller(p)
    \/ \E p \in Peers : BootstrapCallee(p)
    \/ \E p \in Peers, i \in 1..Len(log) : OfferBegin(p, i)
    \/ \E p \in Peers, i \in 1..Len(log) : OfferEnd(p, i)
    \/ \E p \in Peers, i \in 1..Len(log) : DeliverAnswer(p, i)
    \/ \E p \in Peers : ConnectionFailed(p)
    \/ \E p \in Peers : RestartResume(p)
    \/ \E p \in Peers, s \in ConnProgress : ConnectionProgress(p, s)
    \/ \E p \in Peers : Cleanup(p)

SpecAsync == Init /\ [][NextAsync]_vars

\* sessions in which a channel call is rejected or a row is malformed
NextFault ==
    \/ \E p \in Peers : Join(p)
    \/ \E p \in Peers : Replay(p)
    \/ \E p \in Peers : ReplayFails(p)
    \/ \E p \in Peers : BootstrapCaller(p)
    \/ \E p \in Peers : BootstrapCallerStoreFails(p)
    \/ \E p \in Peers : BootstrapCallee(p)
    \/ \E p \in Peers : BootstrapCalleeStoreFails(p)
    \/ \E p \in Peers : GatherCandidate(p, MaxCand)
    \/ \E p \in Peers : GatherCandidateStoreFails(p)
    \/ \E q \in Peers, t \in FaultTypes : InjectMalformed(q, t)
    \/ \E p \in Peers, i \in 1..Len(log) : DeliverOffer(p, i)
    \/ \E p \in Peers, i \in 1..Len(log) : DeliverOfferStoreFails(p, i)
    \/ \E p \in Peers, i \in 1..Len(log) : DeliverAnswer(p, i)
    \/ \E p \in Peers, i \in 1..Len(log) : DeliverIce(p, i)

SpecFault == Init /\ [][NextFault]_vars

\* sessions of the room page: the room's status, the media acquisition with
\* its failures, screen sharing and endSession
NextSession ==
    \/ \E p \in Peers, e1 \in MediaOutcomes, e2 \in MediaOutcomes :
          CheckRoomAndJoin(p, e1, e2)
    \/ \E p \in Peers : Replay(p)
    \/ \E p \in Peers : BootstrapCaller(p)
    \/ \E p \in Peers : BootstrapCallee(p)
    \/ \E p \in Peers, i \in 1..Len(log) : DeliverOffer(p, i)
    \/ \E p \in Peers, i \in 1..Len(log) : DeliverAnswer(p, i)
    \/ \E p \in Peers : ShareScreen(p)
    \/ \E p \in Peers : StopScreenShare(p)
    \/ \E p \in Peers : EndSession(p, TRUE)

SpecSession == Init /\ [][NextSession]_vars

\* sessions of one hook instance per peer that toggles its camera and its
\* microphone, leaves and joins again
NextToggle ==
    \/ \E p \in Peers : Join(p)
    \/ \E p \in Peers : Replay(p)
    \/ \E p \in Peers : BootstrapCaller(p)
    \/ \E p \in Peers : BootstrapCallee(p)
    \/ \E p \in Peers : BootstrapWait(p)
    \/ \E p \in Peers, e \in ToggleArgs : ToggleCamera(p, e)
    \/ \E p \in Peers, e \in ToggleArgs : ToggleMicrophone(p, e)
    \/ \E p \in Peers : Leave(p)

SpecToggle == Init /\ [][NextToggle]_vars

\* rooms whose members are on either client: the hook or the room page with
\* its own signalling; endSession may meet a rejected update
NextPage ==
    \/ \E p \in Peers : CheckRoomAndJoin(p, "ok", "ok")
    \/ \E p \in Peers : Replay(p)
    \/ \E p \in Peers : BootstrapCaller(p)
    \/ \E p \in Peers : BootstrapCallee(p)
    \/ \E p \in Peers : BootstrapWait(p)
    \/ \E p \in Peers : GatherCandidate(p, MaxCand)
    \/ \E p \in Peers, i \in 1..Len(log) : DeliverOffer(p, i)
    \/ \E p \in Peers, i \in 1..Len(log) : DeliverAnswer(p, i)
    \/ \E p \in Peers, i \in 1..Len(log) : DeliverIce(p, i)
    \/ \E p \in Peers, i \in 1..Len(log) : DeliverOther(p, i)
    \/ \E p \in Peers, ok \in BOOLEAN : EndSession(p, ok)
    \/ \E p \in Peers : InitializeRoom(p)
    \/ \E p \in Peers : PageGatherCandidate(p)
    \/ \E p \in Peers, i \in 1..Len(log) : PageDeliverOffer(p, i)
    \/ \E p \in Peers, i \in 1..Len(log) : PageDeliverAnswer(p, i)
    \/ \E p \in Peers, i \in 1..Len(log) : PageDeliverIce(p, i)
    \/ \E p \in Peers, i \in 1..Len(log) : PageDeliverOther(p, i)
    \/ \E p \in Peers, ok \in BOOLEAN : PageEndSession(p, ok)

SpecPage == Init /\ [][NextPage]_vars

\* sessions without failures, redeliveries and departures, in which every
\* enabled handler step is eventually taken
NextLive ==
    \/ \E p \in Peers : Join(p)
    \/ \E p \in Peers : Replay(p)
    \/ \E p \in Peers : BootstrapCaller(p)
    \/ \E p \in Peers : BootstrapCallee(p)
    \/ \E p \in Peers : GatherCandidate(p, MaxCand)
    \/ \E p \in Peers, i \in 1..Len(log) : DeliverOffer(p, i)
    \/ \E p \in Peers, i \in 1..Len(log) : DeliverAnswer(p, i)
    \/ \E p \in Peers, i \in 1..Len(log) : DeliverIce(p, i)

\* the awaited calls of initializeSession resolve, and the channel hands
\* every row it holds for a subscriber to the subscriber's handler
FairLive ==
    /\ WF_vars(\E p \in Peers : Replay(p))
    /\ WF_vars(\E p \in Peers : BootstrapCaller(p))
    /\ WF_vars(\E p \in Peers : BootstrapCallee(p))
    /\ WF_vars(\E p \in Peers, i \in 1..Len(log) : DeliverOffer(p, i))
    /\ WF_vars(\E p \in Peers, i \in 1..Len(log) : DeliverAnswer(p, i))
    /\ WF_vars(\E p \in Peers, i \in 1..Len(log) : DeliverIce(p, i))

SpecLive == Init /\ [][NextLive]_vars /\ FairLive

\* sessions that leave and join again while candidates are gathered, so that
\* a replay holds candidates of both senders
NextReplay ==
    \/ \E p \in Peers : Join(p)
    \/ \E p \in Peers : Replay(p)
    \/ \E p \in Peers : BootstrapCaller(p)
    \/ \E p \in Peers : BootstrapCallee(p)
    \/ \E p \in Peers : BootstrapWait(p)
    \/ \E p \in Peers : GatherCandidate(p, MaxReplayCand)
    \/ \E p \in Peers, i \in 1..Len(log) : DeliverOffer(p, i)
    \/ \E p \in Peers, i \in 1..Len(log) : DeliverAnswer(p, i)
    \/ \E p \in Peers : Leave(p)

SpecReplay == Init /\ [][NextReplay]_vars

\* ------------------------------------------------------------ vocabulary
Range(f) == {f[k] : k \in DOMAIN f}

Rows == 1..Len(log)

\* both bootstraps are done and the channel has nothing left to deliver
Quiescent ==
    \A p \in Peers : pos[p] = "live" /\ inbox[p] = {}

\* p holds the offer, q the answer to it, and each holds the other's
AgreedPair(p, q) ==
    /\ pc[p].currentLocalDescription.type = "offer"
    /\ pc[q].currentRemoteDescription = pc[p].currentLocalDescription
    /\ pc[q].currentLocalDescription = Answer(q, pc[p].currentLocalDescription)
    /\ pc[p].currentRemoteDescription = pc[q].currentLocalDescription

\* ------------------------------------------------------------------ C1
\* glare: both peers published a bootstrap offer and each rolled its own
\* offer back when the other's arrived (no ICE restart involved)
Glare ==
    /\ restarts = 0
    /\ \A p \in Peers : role[p] = "caller" /\ <<"rolled-back", p>> \in notes

\* C1: after glare, once every message is delivered, both peers are stable
\* and hold one offer/answer pair: one of the two offers is the committed
\* one, answered by the other side.
C1_GlareConverges ==
    (Glare /\ Quiescent) =>
        /\ \A p \in Peers : pc[p].signalingState = "stable"
        /\ \E p \in Peers : AgreedPair(p, Other(p))

\* ------------------------------------------------------------------ C2
\* C2: a live offer of the other sender that finds the connection in
\* have-local-offer rolls the local offer back, takes the remote offer as
\* remote description, commits and publishes exactly one answer, leaves the
\* connection stable and the error state unset.
C2_GlareRollback ==
    [][\A p \in Peers, i \in Rows :
          (DeliverOffer(p, i) /\ pc[p].signalingState = "have-local-offer") =>
              LET offer == log[i].signal_data IN
              /\ pc'[p].signalingState = "stable"
              /\ pc'[p].pendingLocalDescription = NoDesc
              /\ pc'[p].currentRemoteDescription = offer
              /\ pc'[p].currentLocalDescription = Answer(p, offer)
              /\ log' = Append(log, Signal("answer", p, Answer(p, offer)))
              /\ ~error'[p]
              /\ <<"rolled-back", p>> \in notes']_vars

\* a peer that published an offer has rolled it back and answered instead
C2_Witness ==
    \E p \in Peers :
        /\ <<"rolled-back", p>> \in notes
        /\ role[p] = "caller"
        /\ pc[p].signalingState = "stable"
        /\ pc[p].currentLocalDescription.type = "answer"
        /\ \E i \in Rows : log[i] = Signal("answer", p, pc[p].currentLocalDescription)

\* ------------------------------------------------------------------ C3
\* C3: at most one local offer is outstanding per membership: no step
\* commits a new local offer while an earlier one is still pending (neither
\* answered nor rolled back).
C3_SingleOutstandingOffer ==
    [][\A p \in Peers :
          (/\ pc'[p].pendingLocalDescription.type = "offer"
           /\ pc'[p].pendingLocalDescription # pc[p].pendingLocalDescription)
          => pc[p].pendingLocalDescription = NoDesc]_vars

\* ------------------------------------------------------------------ C4
\* C4: createOffer on a connection in have-local-offer fails: nothing is
\* published, and the signaling state and the pending local description
\* stay as they were.
C4_SecondCreateOfferFails ==
    [][\A p \in Peers :
          (BootstrapCaller(p) /\ pc[p].signalingState = "have-local-offer") =>
              /\ log' = log
              /\ pc'[p].signalingState = pc[p].signalingState
              /\ pc'[p].pendingLocalDescription = pc[p].pendingLocalDescription]_vars

\* ------------------------------------------------------------------ C5
\* C5: a remote candidate handed to the live handler is never lost: once the
\* bootstrap is done and the connection has a remote description, every such
\* candidate is among the applied ones.
C5_CandidatesKept ==
    \A p \in Peers : \A i \in delivered[p] :
        (/\ log[i].signal_type = "ice"
         /\ log[i].sender_id # p
         /\ pos[p] = "live"
         /\ RemoteDescription(pc[p]) # NoDesc)
        => log[i].signal_data \in Range(applied[p])

\* ------------------------------------------------------------------ C6
\* C6: an answer handled while the signaling state is not have-local-offer
\* changes nothing: no connection, no description, no applied candidate, no
\* row of the log and no error state changes.
C6_StaleAnswerNoOp ==
    [][\A p \in Peers, i \in Rows :
          (DeliverAnswer(p, i) /\ pc[p].signalingState # "have-local-offer") =>
              /\ pc' = pc
              /\ log' = log
              /\ applied' = applied
              /\ error' = error]_vars

\* an answer was ignored by a peer that is stable
C6_Witness ==
    \E p \in Peers :
        /\ <<"ignored-answer", p>> \in notes
        /\ pc[p].signalingState = "stable"
        /\ \E i \in delivered[p] :
              log[i].signal_type = "answer" /\ log[i].sender_id # p

\* ------------------------------------------------------------------ C7
\* C7: an answer becomes the remote description only when it answers the
\* local offer that is outstanding at that moment.
C7_AnswerMatchesOutstandingOffer ==
    [][\A p \in Peers, i \in Rows :
          (/\ DeliverAnswer(p, i)
           /\ pc'[p] # pc[p]
           /\ pc'[p].currentRemoteDescription = log[i].signal_data)
          => /\ pc[p].pendingLocalDescription.type = "offer"
             /\ log[i].signal_data.id = pc[p].pendingLocalDescription.id]_vars

\* ------------------------------------------------------------------ C8
\* C8: an offer is answered at most once by its receiver, however often it
\* reaches it (replay and live subscription, redelivery).
C8_OneAnswerPerOffer ==
    \A i \in Rows :
        log[i].signal_type = "offer" =>
            LET q == Other(log[i].sender_id)
                a == Signal("answer", q, Answer(q, log[i].signal_data)) IN
            Cardinality({j \in Rows : log[j] = a}) <= 1

C10_CalleePublishesOneAnswer ==
    [][\A p \in Peers :
          BootstrapCallee(p) =>
              LET offer == ExistingOffer(Snapshot(p)).signal_data IN
              /\ log' = Append(log, Signal("answer", p, Answer(p, offer)))
              /\ pc'[p].signalingState = "stable"
              /\ pc'[p].currentLocalDescription = Answer(p, offer)
              /\ pc'[p].currentRemoteDescription = offer]_vars

\* a callee that joined after the offer was stored: one answer row, no offer
C10_Witness ==
    \E p \in Peers :
        /\ role[p] = "callee"
        /\ pos[p] = "live"
        /\ pc[p].signalingState = "stable"
        /\ delivered[p] = {}
        /\ Cardinality({i \in Rows : log[i].signal_type = "answer"
                                      /\ log[i].sender_id = p}) = 1
        /\ \A i \in Rows : log[i].sender_id = p => log[i].signal_type # "offer"

\* ------------------------------------------------------------------ C11
\* the replay of p holds an offer and the first one is p's own
OwnOfferFirst(p) ==
    /\ OfferRows(Snapshot(p)) # {}
    /\ ExistingOffer(Snapshot(p)).sender_id = p

\* C11: a bootstrap whose replay starts with an offer of this sender stores
\* no row (neither offer nor answer) and leaves the connection, and with it
\* the signaling state, as it was.
C11_OwnOfferWaits ==
    [][\A p \in Peers :
          (pos[p] = "replayed" /\ pos'[p] = "live" /\ OwnOfferFirst(p)) =>
              /\ log' = log
              /\ pc'[p] = pc[p]]_vars

\* a peer that joined again found its earlier offer and only waits
C11_Witness ==
    \E p \in Peers :
        /\ role[p] = "waiting"
        /\ pos[p] = "live"
        /\ pc[p] = initialize(NewPC, "live").pc
        /\ OwnOfferFirst(p)

\* ------------------------------------------------------------------ C12
\* C12: the restart that a transition to failed starts publishes its offer:
\* the step in which restartIce finishes stores exactly one row, the restart
\* offer of that peer.
C12_RestartOfferPublished ==
    [][\A p \in Peers :
          (restarting[p] # 0 /\ restarting'[p] = 0) =>
              log' = Append(log, Signal("offer", p, Offer(p, restarting[p])))]_vars

\* ------------------------------------------------------------------ C13
\* C13: a restart is started only by a transition of a connection into
\* failed, and one such transition starts one restart and creates at most
\* one offer; so the restarts, and the offers created beyond the one of each
\* bootstrap, never outnumber the failures.
C13_OneRestartPerFailure ==
    /\ [](offerSeq["A"] + offerSeq["B"] <= restarts + Cardinality(Peers))
    /\ [][/\ restarts' \in {restarts, restarts + 1}
          /\ restarts' = restarts + 1 =>
                \E p \in Peers :
                    /\ pc[p].connectionState # "failed"
                    /\ pc'[p].connectionState = "failed"
                    /\ offerSeq'[p] <= offerSeq[p] + 1
                    /\ offerSeq'[Other(p)] = offerSeq[Other(p)]
          /\ \A p \in Peers :
                (restarting'[p] # 0 /\ restarting'[p] # restarting[p]) =>
                    restarts' = restarts + 1]_vars

\* the same peer has failed twice, the other never, and its second restart
\* offer is the pending one
C13_Witness ==
    \E p \in Peers :
        /\ restarts = 2
        /\ pc[p].connectionState = "failed"
        /\ pc[Other(p)].connectionState = "new"
        /\ pc[p].pendingLocalDescription = Offer(p, offerSeq[p])
        /\ offerSeq[p] >= 2
        /\ restarting[p] = 0

\* ------------------------------------------------------------------ C14
\* C14: a restart that cannot be negotiated is surfaced: when, on a
\* connection that has not been closed, restartIce's createOffer or its
\* setLocalDescription is rejected, the step sets the session's error state.
C14_RestartFailureSurfaced ==
    [][\A p \in Peers :
          (/\ pc[p].signalingState # "closed"
           /\ \/ ConnectionFailed(p) /\ ~CanCreateOffer(pc[p])
              \/ /\ RestartResume(p)
                 /\ ~SetLocalDescription(pc[p], Offer(p, restarting[p])).ok)
          => error'[p]]_vars

\* ------------------------------------------------------------------ C15
\* C15: close() never throws, releases the connection and leaves no track of
\* the bound stream live, and a second close() changes nothing; cleanup of a
\* bound service does just that, also while restartIce is suspended, and the
\* restart that resumes afterwards changes neither the closed connection nor
\* the stream nor the error state.
C15_CloseIdempotent ==
    /\ [](\A p \in Peers :
            LET r == close(pc[p], media[p])
                rr == close(r.pc, r.stream) IN
            /\ r.ok /\ rr.ok
            /\ r.pc.signalingState = "closed"
            /\ r.stream # "live"
            /\ rr.pc = r.pc /\ rr.stream = r.stream)
    /\ [][\A p \in Peers :
            /\ (Cleanup(p) /\ Subscribed(p)) =>
                   /\ pc'[p].signalingState = "closed"
                   /\ media'[p] = "stopped"
            /\ (Cleanup(p) /\ pc[p].signalingState = "closed") =>
                   /\ pc'[p] = pc[p]
                   /\ media'[p] = media[p]
            /\ (/\ pc[p].signalingState = "closed"
                /\ restarting[p] # 0 /\ restarting'[p] = 0) =>
                   /\ pc'[p] = pc[p]
                   /\ media' = media
                   /\ error' = error]_vars

\* the service was closed while its restartIce was suspended
C15_Witness ==
    \E p \in Peers :
        /\ pc[p].signalingState = "closed"
        /\ media[p] = "stopped"
        /\ restarting[p] # 0

\* ------------------------------------------------------------------ C16
\* C16: a connection becomes closed only in a cleanup step; a closed
\* connection stays as it is, takes no candidate and publishes nothing; and
\* on it createOffer, createAnswer, setRemoteDescription, addIceCandidate and
\* initialize all fail and return the connection unchanged.
C16_ClosedIsTerminal ==
    /\ [](\A p \in Peers :
            pc[p].signalingState = "closed" =>
                LET c == pc[p] IN
                /\ createOffer(c, p, offerSeq[p] + 1) = Fail(c)
                /\ initialize(c, media[p]) = Fail(c)
                /\ addIceCandidate(c, applied[p], Candidate(Other(p), 1))
                      = applied[p]
                /\ \A i \in Rows :
                      /\ createAnswer(c, p, log[i].signal_data) = Fail(c)
                      /\ setRemoteDescription(c, log[i].signal_data) = Fail(c))
    /\ [][\A p \in Peers :
            /\ (/\ pc'[p].signalingState = "closed"
                /\ pc[p].signalingState # "closed") => Cleanup(p)
            /\ pc[p].signalingState = "closed" =>
                   /\ pc'[p] = pc[p]
                   /\ applied'[p] = applied[p]
                   /\ (log' = log \/ log'[Len(log')].sender_id # p)]_vars

\* a bootstrap ran its createOffer or createAnswer on a closed connection
\* and ended with the error state set
C16_Witness ==
    \E p \in Peers :
        /\ pc[p].signalingState = "closed"
        /\ pos[p] = "live"
        /\ error[p]
        /\ \E i \in Rows : log[i].sender_id # p

\* ------------------------------------------------------------------ C17
\* C17: once cleanup has returned (the hook's roomId is unset), the
\* membership has no armed subscription and no open connection bound to it,
\* whatever step of initializeSession or of a handler was in flight when
\* cleanup ran.
C17_NothingArmedAfterCleanup ==
    \A p \in Peers : ~roomId[p] => ~Subscribed(p)

\* ------------------------------------------------------------------ C18
\* C18: once cleanup has returned, no capture track acquired for the session
\* is live, also when cleanup ran while getUserMedia was still pending.
C18_TracksStoppedAfterCleanup ==
    \A p \in Peers : ~roomId[p] => media[p] # "live"

\* ------------------------------------------------------------------ C19
\* C19: messages of one membership are processed one at a time: no live
\* handler, and no offer/answer step of the bootstrap, begins while a handler
\* of that membership is still suspended at one of its awaits.
C19_SerialProcessing ==
    [][\A p \in Peers :
          (\/ \E i \in Rows : OfferBegin(p, i) \/ DeliverAnswer(p, i)
           \/ BootstrapCaller(p)
           \/ BootstrapCallee(p))
          => tasks[p] = {}]_vars

\* ------------------------------------------------------------------ C20
\* C20: a live message of the local sender is discarded: the step changes
\* no connection, applies no candidate, stores no row and leaves the error
\* state and everything else as it was.
C20_SelfEchoDiscarded ==
    [][\A p \in Peers, i \in Rows :
          DeliverOwn(p, i) =>
              /\ pc' = pc
              /\ applied' = applied
              /\ log' = log
              /\ inbox' = inbox
              /\ error' = error
              /\ UNCHANGED <<pos, offerSeq, restarts, role, notes>>]_vars

\* a peer whose own offer is in the log while its handler is armed and its
\* offer is still pending: the echo reaches a handler that could act on it
C20_Witness ==
    \E p \in Peers, i \in Rows :
        /\ Subscribed(p)
        /\ pos[p] = "live"
        /\ log[i] = Signal("offer", p, pc[p].pendingLocalDescription)

\* ------------------------------------------------------------------ C21
\* the live handler of p meets an error on row i: the payload is malformed
\* and the branch gets as far as the call that rejects it
HandlerError(p, i) ==
    /\ log[i].signal_data = Malformed
    /\ \/ DeliverOffer(p, i)
       \/ DeliverAnswer(p, i) /\ pc[p].signalingState = "have-local-offer"
       \/ DeliverIce(p, i)

\* C21: an error raised while a live message is processed stays inside the
\* handler: the connection is not closed, the subscription stays armed, the
\* error state of the session is not set, nothing is published, and the rows
\* still waiting for the handler stay waiting, so the next valid message is
\* processed.
C21_HandlerErrorContained ==
    [][\A p \in Peers, i \in Rows :
          HandlerError(p, i) =>
              /\ pc'[p].signalingState # "closed"
              /\ pos'[p] = pos[p]
              /\ error' = error
              /\ log' = log
              /\ inbox'[p] = inbox[p] \ {i}
              /\ roomId' = roomId]_vars

\* a caller whose handler rejected a malformed answer while its offer was
\* outstanding (an answer met in another state is noted as ignored) has
\* taken the valid answer afterwards
C21_Witness ==
    \E p \in Peers : \E i \in delivered[p] :
        /\ log[i] = Signal("answer", Other(p), Malformed)
        /\ <<"ignored-answer", p>> \notin notes
        /\ pc[p].signalingState = "stable"
        /\ pc[p].currentRemoteDescription.type = "answer"
        /\ ~error[p]

\* ------------------------------------------------------------------ C22
\* C22: a rejected publish or replay reaches the caller of the step: the
\* error state of the peer whose call was rejected is set.
C22_ChannelFailurePropagated ==
    \A x \in lost : error[x[2]]

\* ------------------------------------------------------------------ C23
\* the signaling state and the descriptions of every connection stay
Negotiation(c) ==
    <<c.signalingState, c.pendingLocalDescription, c.currentLocalDescription,
      c.pendingRemoteDescription, c.currentRemoteDescription>>

\* C23: shareScreen and stopScreenShare on a connection that has a video
\* sender only replace the sender's track (screen for shareScreen, camera
\* for stopScreenShare): no row is published, and the signaling state and
\* the descriptions of both peers stay as they were.
C23_TrackReplacementNoSignal ==
    [][\A p \in Peers :
          ((ShareScreen(p) \/ StopScreenShare(p)) /\ pc[p].videoSender # "none")
          => /\ log' = log
             /\ inbox' = inbox
             /\ \A q \in Peers : Negotiation(pc'[q]) = Negotiation(pc[q])
             /\ pc'[p].videoSender =
                  (IF pc[p].videoSender = "camera" THEN "screen" ELSE "camera")
             /\ error' = error]_vars

\* a peer with a camera stream and an established pair is sharing its screen
\* on the sender that carried the camera
C23_Witness ==
    \E p \in Peers :
        /\ media[p] = "live"
        /\ pc[p].videoSender = "screen"
        /\ pc[p].signalingState = "stable"
        /\ pc[p].currentRemoteDescription # NoDesc

\* ------------------------------------------------------------------ C24
\* C24: shareScreen on a bootstrapped connection without a video sender adds
\* a sender and starts a renegotiation: a fresh offer of this peer is
\* committed and published.
C24_AddedSenderRenegotiates ==
    [][\A p \in Peers :
          (ShareScreen(p) /\ pc[p].videoSender = "none" /\ pos[p] = "live")
          => /\ pc'[p].videoSender = "screen"
             /\ pc'[p].pendingLocalDescription.type = "offer"
             /\ pc'[p].pendingLocalDescription # pc[p].pendingLocalDescription
             /\ log' = Append(log, Signal("offer", p,
                                          pc'[p].pendingLocalDescription))]_vars

\* ------------------------------------------------------------------ C25
\* C25: a join of an ended room is refused: no connection is created, no
\* subscription is armed, nothing is published and no media is acquired for
\* it.
C25_EndedRoomRefused ==
    [][\A p \in Peers, e1 \in MediaOutcomes, e2 \in MediaOutcomes :
          (CheckRoomAndJoin(p, e1, e2) /\ room.status = "ended")
          => /\ pos'[p] = "idle"
             /\ pc' = pc
             /\ inbox' = inbox
             /\ log' = log
             /\ roomId' = roomId
             /\ media' = media]_vars

\* a peer that never joined was told that the session has ended
C25_Witness ==
    \E p \in Peers :
        /\ room.status = "ended"
        /\ <<"session-ended", p>> \in notes
        /\ pos[p] = "idle"
        /\ acq[p] = NoAcq
        /\ pc[p] = NewPC

\* ------------------------------------------------------------------ C26
\* C26: the end of a room is recorded once, and an ended room stays as it
\* is: no step moves it back to active or writes its end again.
C26_EndedOnce ==
    /\ [](room.ends <= 1)
    /\ [][room.status = "ended" => room' = room]_vars

\* ------------------------------------------------------------------ C27
\* C27: a getUserMedia call that the browser rejects is surfaced at once:
\* one call, no stream, and an error that names what the browser answered
\* (permission denied or device unavailable).
C27_AcquireFailureSurfaced ==
    \A p \in Peers :
        acq[p].first \notin {"none", "ok"} =>
            /\ acq[p].calls = 1
            /\ acq[p].stream = "none"
            /\ acq[p].error.name = acq[p].first
            /\ error[p]

\* ------------------------------------------------------------------ C28
\* C28: every connectivity transition is shown to the caller (the hook's
\* connectionState takes the new state), and the transition to failed ends
\* nothing: the connection is not closed, the subscription and its waiting
\* rows stay, the media stays, the roomId and the room's row stay.
C28_FailedNotifiesAndKeepsSession ==
    [][\A p \in Peers :
          /\ ConnectionFailed(p) =>
                /\ connectionState'[p] = "failed"
                /\ pc'[p].signalingState # "closed"
                /\ pos' = pos
                /\ inbox' = inbox
                /\ media' = media
                /\ roomId' = roomId
                /\ room' = room
                /\ error' = error
          /\ \A s \in ConnProgress :
                ConnectionProgress(p, s) => connectionState'[p] = s]_vars

\* a running session whose caller was told that connectivity failed
C28_Witness ==
    \E p \in Peers :
        /\ connectionState[p] = "failed"
        /\ pc[p].connectionState = "failed"
        /\ Subscribed(p)
        /\ roomId[p]
        /\ media[p] = "live"
        /\ room.status = "active"

\* ------------------------------------------------------------------ C29
\* a holds the committed offer it created, b holds it as remote description,
\* a holds b's answer to it, and both are stable
Established(a, b) ==
    LET offer == pc[a].currentLocalDescription IN
    /\ pc[a].signalingState = "stable"
    /\ pc[b].signalingState = "stable"
    /\ offer.type = "offer"
    /\ offer.from = a
    /\ pc[a].currentRemoteDescription = Answer(b, offer)
    /\ pc[b].currentRemoteDescription = offer

\* a finished its bootstrap while b had not started
BootstrappedFirst(a, b) == pos[a] = "live" /\ pos[b] = "idle"

\* C29: when one peer finishes its bootstrap before the other starts, then
\* from the moment the other has started the pair is eventually
\* established: both stable, the first holding the second's answer to its
\* offer and the second holding that offer.
C29_BasicEstablishment ==
    /\ [](BootstrappedFirst("A", "B") =>
            [](pos["B"] # "idle" => <>Established("A", "B")))
    /\ [](BootstrappedFirst("B", "A") =>
            [](pos["A"] # "idle" => <>Established("B", "A")))

\* the first peer is the caller, the second the callee of its replayed offer,
\* and the pair is established
C29_Witness ==
    \E a \in Peers :
        /\ role[a] = "caller"
        /\ role[Other(a)] = "callee"
        /\ Established(a, Other(a))

\* ------------------------------------------------------------------ C30
\* the payloads of the candidates in the rows s that p did not send, in the
\* order of the rows
RemoteIce(s, p) ==
    LET t == SelectSeq(s, LAMBDA m : m.signal_type = "ice" /\ m.sender_id # p)
    IN [k \in 1..Len(t) |-> t[k].signal_data]

\* C30: the callee branch of the bootstrap commits and publishes its answer
\* and then applies the replayed candidates: the connection accepts exactly
\* the candidates of the other sender, in the order of the replay (a
\* candidate applied before the answer would have been rejected).
C30_CalleeAnswersThenReplaysIce ==
    [][\A p \in Peers :
          BootstrapCallee(p) =>
              LET s == Snapshot(p)
                  a == Answer(p, ExistingOffer(s).signal_data) IN
              /\ pc'[p].currentLocalDescription = a
              /\ pc'[p].signalingState = "stable"
              /\ log' = Append(log, Signal("answer", p, a))
              /\ applied'[p] = RemoteIce(s, p)]_vars

\* a callee has applied two replayed candidates of the other sender, in the
\* order in which they were stored
C30_Witness ==
    \E p \in Peers :
        /\ role[p] = "callee"
        /\ pos[p] = "live"
        /\ Len(applied[p]) = 2
        /\ applied[p] = RemoteIce(Snapshot(p), p)
        /\ applied[p][1].id < applied[p][2].id

\* ---------------------------------------------------------------- C31
\* C31: every run of initializeSession creates and initializes exactly one
\* negotiator, and only with the stream getUserMedia returned: the step
\* that takes a peer out of idle is the one step of the membership that
\* binds a new WebRTCService, it initializes it with the acquired stream,
\* arms the subscription and publishes nothing, so that whoever has
\* published, created or received anything holds an acquired stream.  A
\* run whose acquisition fails binds no negotiator, arms no subscription
\* and publishes nothing.
C31_InitializeOnceAfterAcquire ==
    /\ [](\A p \in Peers :
            /\ pos[p] # "idle" =>
                 /\ acq[p].stream # "none"
                 /\ media[p] = acq[p].stream
                 /\ gen[p] >= 1
            /\ gen[p] = 0 =>
                 /\ pc[p] = NewPC
                 /\ ~Subscribed(p)
                 /\ inbox[p] = {}
                 /\ \A i \in Rows : log[i].sender_id # p)
    /\ [][\A p \in Peers :
            /\ gen'[p] \in {gen[p], gen[p] + 1}
            /\ (pos[p] = "idle" /\ pos'[p] # "idle") <=>
                                                 gen'[p] = gen[p] + 1
            /\ gen'[p] = gen[p] + 1 =>
                 /\ acq'[p].stream # "none"
                 /\ pc'[p] = initialize(NewPC, acq'[p].stream).pc
                 /\ pos'[p] = "subscribed"
                 /\ log' = log
            /\ (acq'[p] # acq[p] /\ acq'[p].stream = "none") =>
                 /\ gen'[p] = gen[p]
                 /\ pc'[p] = pc[p]
                 /\ pos'[p] = "idle"
                 /\ inbox' = inbox
                 /\ log' = log]_vars

\* one peer's acquisition failed and left nothing behind, while the other
\* peer acquired a stream, initialized its negotiator and published an offer
C31_Witness ==
    \E p \in Peers :
        /\ acq[p].calls > 0
        /\ acq[p].stream = "none"
        /\ gen[p] = 0
        /\ pc[p] = NewPC
        /\ gen[Other(p)] = 1
        /\ role[Other(p)] = "caller"
        /\ \E i \in Rows : log[i] = Signal("offer", Other(p),
                                            pc[Other(p)].pendingLocalDescription)

\* ---------------------------------------------------------------- C32
\* the handler of p takes row i in this step
Taken(p, i) ==
    /\ i \in inbox[p]
    /\ i \notin inbox'[p]
    /\ i \in delivered'[p]

\* C32: a candidate that one peer's candidate callback has published is
\* recognised as a candidate by the other peer: the step in which the other
\* peer's live handler takes the row hands the candidate to addIceCandidate.
C32_CandidateRecognised ==
    [][\A p \in Peers, i \in Rows :
          (/\ Taken(p, i)
           /\ log[i].sender_id # p
           /\ log[i].signal_data.type = "candidate")
          => applied'[p] = addIceCandidate(pc[p], applied[p],
                                          log[i].signal_data)]_vars

\* ---------------------------------------------------------------- C38
\* C38: an endSession whose update of the room to ended is rejected still
\* performs cleanup - the negotiator is closed, the bound tracks are stopped
\* and the subscription is removed - and the failure becomes the session's
\* error.
C38_EndSessionAlwaysCleansUp ==
    [][\A p \in Peers :
          (<<"end", p>> \in lost' /\ <<"end", p>> \notin lost)
          => /\ pc'[p].signalingState = "closed"
             /\ media'[p] = "stopped"
             /\ inbox'[p] = {}
             /\ pos'[p] = "idle"
             /\ error'[p]
             /\ room' = room]_vars

\* ---------------------------------------------------------------- C33
\* C33: in every state of the log, each answer row of a sender comes after
\* an offer row of another sender (no peer answers before the other peer
\* has offered, and no peer answers itself).
C33_AnswerAfterOffer ==
    \A i \in Rows :
        log[i].signal_type = "answer" =>
            \E j \in 1..(i - 1) :
                /\ log[j].signal_type = "offer"
                /\ log[j].sender_id # log[i].sender_id

\* both peers have offered and both have answered the other's offer
C33_Witness ==
    \A p \in Peers :
        \E i \in Rows :
            /\ log[i].signal_type = "answer"
            /\ log[i].sender_id = p
            /\ \E j \in 1..(i - 1) : log[j] = Signal("offer", Other(p),
                                                     Offer(Other(p), 1))

\* ---------------------------------------------------------------- C34
\* p has taken no offer of the other peer in this membership
NoRemoteOfferYet(p) ==
    \A i \in delivered[p] : log[i].signal_type # "offer"

AnswererRejoined(a, b) ==
    /\ gen[a] = 1
    /\ role[a] = "caller"
    /\ gen[b] = 2
    /\ role[b] = "callee"
    /\ offerSeq[b] = 0

\* C35: when the answerer has left and joined the room again with a new
\* negotiator while the caller stayed, then once every message is delivered
\* the two hold a matching pair again: the answer the caller has applied as
\* its remote description is the answer the answerer's present negotiator
\* has committed as its local description.
C35_AnswererRejoinAgrees ==
    \A a \in Peers :
        (AnswererRejoined(a, Other(a)) /\ Quiescent) =>
            /\ pc[a].currentRemoteDescription.type = "answer"
            /\ pc[a].currentRemoteDescription =
                   pc[Other(a)].currentLocalDescription

\* ---------------------------------------------------------------- C36
\* cleanup has returned for the membership p started
CleanedUp(p) == pos[p] # "idle" /\ ~roomId[p]

\* p stores a row in this step
Publishes(p) ==
    /\ Len(log') = Len(log) + 1
    /\ log'[Len(log')].sender_id = p

\* C36: once cleanup has returned, the membership stores no further offer,
\* answer or candidate, whatever was suspended when cleanup ran: a live
\* handler inside createAnswer, a restart, or initializeSession itself.
C36_SilentAfterCleanup ==
    [][\A p \in Peers : CleanedUp(p) => ~Publishes(p)]_vars

\* ---------------------------------------------------------------- C37
\* C37: whenever a hook instance holds a local stream, its isCameraOn is
\* the enabled flag of the stream's video track and its isMicOn the enabled
\* flag of the stream's audio track, whatever joins, toggles, leaves and
\* new joins the instance has gone through.
C37_FlagsMatchTracks ==
    \A p \in Peers :
        /\ media[p] = "live" => isCameraOn[p] = trackEnabled[p].video
        /\ media[p] \in {"live", "audio"} =>
                                 isMicOn[p] = trackEnabled[p].audio
====
